---- MODULE Spec2Model ----
(***************************************************************************)
(* Model of packages/trpc/routers/lists.ts: the ownership-gated list and   *)
(* membership procedures of listsAppRouter.                                *)
(*                                                                         *)
(* Every procedure call is a process.  A call advances by one store access *)
(* (one awaited db call, together with the synchronous code that follows   *)
(* it up to the next await) per step, so calls interleave exactly at the   *)
(* awaits of the source.                                                   *)
(***************************************************************************)
EXTENDS Integers, Sequences, FiniteSets, TLC

VARIABLES
    lists,      \* table bookmarkLists: list id -> row, or NULL when no row has that id
    members,    \* table bookmarksInLists: <<listId, bookmarkId>> -> number of rows
    nextId,     \* number of the next list id the store generates
    calls,      \* the procedure call each process is executing
    last,       \* the call that ended most recently, with its outcome
    started     \* number of calls started so far

vars == <<lists, members, nextId, calls, last, started>>

----------------------------------------------------------------------------
(* Bounds of the model *)

\* Number of list ids the store can generate.
MaxLists == 2

\* Number of calls started in one behaviour.
MaxCalls == 3

----------------------------------------------------------------------------
(* Values *)

NULL == "null"                \* SQL NULL / a findFirst that found no row
UNDEFINED == "undefined"      \* an optional input field that was not provided
NoUser == "anon"              \* ctx.user is absent

Users == {"u1", "u2"}
Callers == Users \cup {NoUser}

ListIds == {ToString(i) : i \in 1..MaxLists}

\* The bookmark collaborator: the bookmarks that exist and who owns each.
Bookmarks == {"b1", "b2"}
BookmarkOwner == [b \in Bookmarks |-> IF b = "b1" THEN "u1" ELSE "u2"]
\* Bookmark ids a caller may send: the existing ones and one that does not exist.
BookmarkIds == Bookmarks \cup {"b0"}

Procs == {"p1", "p2"}

ListTypes == {"manual", "smart"}

\* Error kinds of the spec, by the tRPC code the source throws.
Unauthenticated == "UNAUTHORIZED"
NotFound == "NOT_FOUND"
Forbidden == "FORBIDDEN"
InvalidArgument == "BAD_REQUEST"
Internal == "INTERNAL_SERVER_ERROR"
OK == "ok"
PENDING == "pending"

\* Input values the callers draw from.
NameInputs == {UNDEFINED, "n1"}
IconInputs == {UNDEFINED, "i1"}
ParentInputs == {UNDEFINED, NULL, "1"}
QueryInputs == {UNDEFINED, "", "q"}

----------------------------------------------------------------------------
(* Calls *)

GuardedOps == {"edit", "delete", "get", "addToList", "removeFromList"}
MembershipOps == {"addToList", "removeFromList"}
Ops == GuardedOps \cup {"create", "list", "getListsOfBookmark"}

\* JavaScript truthiness of an optional string: `if (input.query)`.
Truthy(q) == q \notin {UNDEFINED, NULL, ""}

\* Mutant of Stages: addToList and removeFromList check the bookmark only
\* after their write.
StagesGuardAfterWrite(op, query) ==
    CASE op = "create" -> <<"createInsert">>
      [] op = "edit" -> IF Truthy(query)
                          THEN <<"listGuard", "editReread", "editUpdate">>
                          ELSE <<"listGuard", "editUpdate">>
      [] op = "delete" -> <<"listGuard", "deleteList">>
      [] op = "addToList" -> <<"listGuard", "addReread", "addInsert", "bookmarkGuard">>
      [] op = "removeFromList" -> <<"listGuard", "removeDelete", "bookmarkGuard">>
      [] op = "get" -> <<"listGuard", "getRead">>
      [] op = "list" -> <<"listFindMany">>
      [] op = "getListsOfBookmark" -> <<"bookmarkGuard", "bookmarksFindMany">>
      [] OTHER -> <<>>

\* Mutant of Stages: addToList lacks .use(ensureBookmarkOwnership).
StagesNoBookmarkGuard(op, query) ==
    CASE op = "create" -> <<"createInsert">>
      [] op = "edit" -> IF Truthy(query)
                          THEN <<"listGuard", "editReread", "editUpdate">>
                          ELSE <<"listGuard", "editUpdate">>
      [] op = "delete" -> <<"listGuard", "deleteList">>
      [] op = "addToList" -> <<"listGuard", "addReread", "addInsert">>
      [] op = "removeFromList" -> <<"listGuard", "bookmarkGuard", "removeDelete">>
      [] op = "get" -> <<"listGuard", "getRead">>
      [] op = "list" -> <<"listFindMany">>
      [] op = "getListsOfBookmark" -> <<"bookmarkGuard", "bookmarksFindMany">>
      [] OTHER -> <<>>

\* Mutant of Stages: addToList and removeFromList declare the bookmark guard
\* before the list guard.
StagesBookmarkFirst(op, query) ==
    CASE op = "create" -> <<"createInsert">>
      [] op = "edit" -> IF Truthy(query)
                          THEN <<"listGuard", "editReread", "editUpdate">>
                          ELSE <<"listGuard", "editUpdate">>
      [] op = "delete" -> <<"listGuard", "deleteList">>
      [] op = "addToList" -> <<"bookmarkGuard", "listGuard", "addReread", "addInsert">>
      [] op = "removeFromList" -> <<"bookmarkGuard", "listGuard", "removeDelete">>
      [] op = "get" -> <<"listGuard", "getRead">>
      [] op = "list" -> <<"listFindMany">>
      [] op = "getListsOfBookmark" -> <<"bookmarkGuard", "bookmarksFindMany">>
      [] OTHER -> <<>>

\* The steps of a call, in the order the procedure declares them: the
\* middlewares of its .use() chain, then one step per awaited db call of its
\* resolver.  edit re-reads the list only when input.query is truthy.
Stages(op, query) ==
    CASE op = "create" -> <<"createInsert">>
      [] op = "edit" -> IF Truthy(query)
                          THEN <<"listGuard", "editReread", "editUpdate">>
                          ELSE <<"listGuard", "editUpdate">>
      [] op = "delete" -> <<"listGuard", "deleteList">>
      [] op = "addToList" -> <<"listGuard", "bookmarkGuard", "addReread", "addInsert">>
      [] op = "removeFromList" -> <<"listGuard", "bookmarkGuard", "removeDelete">>
      [] op = "get" -> <<"listGuard", "getRead">>
      [] op = "list" -> <<"listFindMany">>
      [] op = "getListsOfBookmark" -> <<"bookmarkGuard", "bookmarksFindMany">>
      [] OTHER -> <<>>

IdleCall ==
    [op |-> "none", user |-> NoUser, listId |-> NULL, bookmarkId |-> NULL,
     query |-> UNDEFINED, pc |-> 0, writes |-> 0, rows |-> 0, code |-> OK, at |-> "",
     msg |-> "", ret |-> {}, name |-> UNDEFINED, icon |-> UNDEFINED,
     parentId |-> UNDEFINED]

NewCall(op, user, listId, bookmarkId, query) ==
    [op |-> op, user |-> user, listId |-> listId, bookmarkId |-> bookmarkId,
     query |-> query, pc |-> 1, writes |-> 0, rows |-> 0, code |-> PENDING, at |-> "",
     msg |-> "", ret |-> {}, name |-> UNDEFINED, icon |-> UNDEFINED,
     parentId |-> UNDEFINED]

Running(c) == c.code = PENDING
Stage(c) == IF Running(c) THEN Stages(c.op, c.query)[c.pc] ELSE "none"

\* The call has issued an insert, update or delete statement, which added or
\* removed n rows of bookmarksInLists.
Wrote(c, n) == [c EXCEPT !.writes = c.writes + 1, !.rows = c.rows + n]
\* The call ends by throwing a TRPCError with the given code.
Throw(c, code, msg) == [c EXCEPT !.code = code, !.at = Stage(c), !.msg = msg, !.pc = 0]
\* The call ends by returning.
Return(c, ret) == [c EXCEPT !.code = OK, !.at = Stage(c), !.ret = ret, !.pc = 0]
\* The step is over without an error: the call moves on to its next step
\* (opts.next(), or the next await), or returns from its last one.
Proceed(c, ret) ==
    IF c.pc < Len(Stages(c.op, c.query)) THEN [c EXCEPT !.pc = c.pc + 1] ELSE Return(c, ret)

----------------------------------------------------------------------------
(* The store *)

ExistingLists == DOMAIN lists
Pairs == ListIds \X Bookmarks
Rows == {pr \in Pairs : members[pr] > 0}
\* Number of rows of bookmarksInLists with the given listId and bookmarkId.
RowCount(listId, bookmarkId) ==
    IF <<listId, bookmarkId>> \in Pairs THEN members[<<listId, bookmarkId>>] ELSE 0

\* db.query.bookmarkLists.findFirst({where: eq(id, listId)}): the ids of the
\* rows found (none, or one).
FindList(listId) == {l \in DOMAIN lists : l = listId}

\* The rows `and(eq(bookmarkLists.id, listId), eq(bookmarkLists.userId, user))` selects.
OwnedList(listId, user) == {l \in DOMAIN lists : l = listId /\ lists[l].userId = user}

Init ==
    /\ lists = <<>>
    /\ members = [pr \in Pairs |-> 0]
    /\ nextId = 1
    /\ calls = [p \in Procs |-> IdleCall]
    /\ last = IdleCall
    /\ started = 0

----------------------------------------------------------------------------
(* Requests *)

\* The requests a process may take up: any call of the router, once its
\* previous call has ended.  create and list are authedProcedures without a
\* guard of their own: they run with a caller identity.  A request is taken
\* up by the first free process.
Requests(p) ==
    IF \/ Running(calls[p])
       \/ started >= MaxCalls
       \/ (p = "p2" /\ ~Running(calls["p1"]))
    THEN {}
    ELSE UNION {
           { NewCall(op, user, listId, bookmarkId, query) :
               user \in (IF op \in {"create", "list"} THEN Users ELSE Callers),
               listId \in (IF op \in GuardedOps THEN ListIds ELSE {NULL}),
               bookmarkId \in (IF op \in MembershipOps \cup {"getListsOfBookmark"}
                                 THEN BookmarkIds ELSE {NULL}),
               query \in (IF op = "edit" THEN QueryInputs ELSE {UNDEFINED}) }
           : op \in Ops }

\* The calls of process p that are about to take the given step: its running
\* call when that is its next step, or a request whose first step it is (a
\* request touches the store for the first time in its first step).
Entering(p, stage) == {c \in {calls[p]} \cup Requests(p) : Stage(c) = stage}

\* Process p's call becomes c: it stays with the process while it runs, and is
\* handed back as the response once it has ended.
Becomes(p, c) ==
    IF Running(c)
      THEN calls' = [calls EXCEPT ![p] = c] /\ last' = last
      ELSE calls' = [calls EXCEPT ![p] = IdleCall] /\ last' = c

\* Taking up a request counts it.
Counted(p) == started' = IF Running(calls[p]) THEN started ELSE started + 1

----------------------------------------------------------------------------
(* The guards *)

\* Mutant of ensureListOwnership: the existence of the list is checked before
\* the caller's identity.
ensureListOwnershipExistenceFirst(user, listId) ==
    LET list == FindList(listId) IN
    IF list = {} THEN "NOT_FOUND"
    ELSE IF user = NoUser THEN "UNAUTHORIZED"
    ELSE IF \E l \in list : lists[l].userId # user THEN "FORBIDDEN"
    ELSE "next"

\* ensureListOwnership: the code the middleware throws, or "next" when it
\* calls opts.next().
ensureListOwnership(user, listId) ==
    LET list == FindList(listId) IN
    IF user = NoUser THEN "UNAUTHORIZED"
    ELSE IF list = {} THEN "NOT_FOUND"
    ELSE IF \E l \in list : lists[l].userId # user THEN "FORBIDDEN"
    ELSE "next"

\* ensureBookmarkOwnership of the bookmark collaborator: the same contract
\* shape as the list guard, over the bookmarks.
ensureBookmarkOwnership(user, bookmarkId) ==
    IF user = NoUser THEN "UNAUTHORIZED"
    ELSE IF bookmarkId \notin Bookmarks THEN "NOT_FOUND"
    ELSE IF BookmarkOwner[bookmarkId] # user THEN "FORBIDDEN"
    ELSE "next"

GuardMessage(code) ==
    CASE code = "UNAUTHORIZED" -> "User is not authorized"
      [] code = "NOT_FOUND" -> "not found"
      [] OTHER -> "User is not allowed to access resource"

ListGuard(p) ==
    \E c \in Entering(p, "listGuard") :
    LET r == ensureListOwnership(c.user, c.listId) IN
    /\ Becomes(p, IF r = "next" THEN Proceed(c, {}) ELSE Throw(c, r, GuardMessage(r)))
    /\ Counted(p)
    /\ UNCHANGED <<lists, members, nextId>>

BookmarkGuard(p) ==
    \E c \in Entering(p, "bookmarkGuard") :
    LET r == ensureBookmarkOwnership(c.user, c.bookmarkId) IN
    /\ Becomes(p, IF r = "next" THEN Proceed(c, {}) ELSE Throw(c, r, GuardMessage(r)))
    /\ Counted(p)
    /\ UNCHANGED <<lists, members, nextId>>

----------------------------------------------------------------------------
(* List procedures *)

\* Inputs of create that the callers draw from.  create does not check them:
\* they are validated at the boundary (.input(zNewBookmarkListSchema)), so a
\* manual list comes without a query.
CreateInputs ==
    {in \in [type : ListTypes, query : {UNDEFINED, "q"}] :
        in.type = "smart" \/ in.query = UNDEFINED}

\* A column left undefined in .values() is stored as NULL.
OrNull(v) == IF v = UNDEFINED THEN NULL ELSE v

\* Mutant of createValues: the owner column is filled from the wrong field.
createValuesWrongOwner(user, name, icon, parentId, type, query) ==
    [name |-> name, icon |-> icon, userId |-> OrNull(parentId), parentId |-> OrNull(parentId),
     type |-> type, query |-> OrNull(query)]

\* create: the row .values({...}) inserts.
createValues(user, name, icon, parentId, type, query) ==
    [name |-> name, icon |-> icon, userId |-> user, parentId |-> OrNull(parentId),
     type |-> type, query |-> OrNull(query)]

CreateInsert(p) ==
    \E c \in Entering(p, "createInsert") :
    LET id == ToString(nextId) IN
    /\ nextId <= MaxLists
    /\ \E in \in CreateInputs :
         lists' = [l \in DOMAIN lists \cup {id} |->
                     IF l = id
                       THEN createValues(c.user, "n0", "i0", UNDEFINED, in.type, in.query)
                       ELSE lists[l]]
    /\ nextId' = nextId + 1
    /\ Becomes(p, Proceed(Wrote(c, 0), {id}))
    /\ Counted(p)
    /\ UNCHANGED members

\* edit, `if (input.query)` branch: "pass", or the error thrown.
editQueryCheck(found) ==
    IF found = {} THEN "INTERNAL_SERVER_ERROR"     \* invariant(list) fails
    ELSE IF \E l \in found : lists[l].type # "smart" THEN "BAD_REQUEST"
    ELSE "pass"

EditReread(p) ==
    \E c \in Entering(p, "editReread") :
    LET r == editQueryCheck(OwnedList(c.listId, c.user)) IN
    /\ Becomes(p, IF r = "pass" THEN Proceed(c, {})
                   ELSE IF r = "BAD_REQUEST"
                     THEN Throw(c, r, "Manual lists cannot have a query")
                     ELSE Throw(c, r, "Invariant failed"))
    /\ Counted(p)
    /\ UNCHANGED <<lists, members, nextId>>

\* Mutant of editSet: a column whose value is undefined is set to null.
editSetOverwrite(row, name, icon, parentId, query) ==
    [row EXCEPT !.name = OrNull(name), !.icon = OrNull(icon),
                !.parentId = OrNull(parentId), !.query = OrNull(query)]

\* A column whose value in .set() is undefined keeps its stored value.
SetColumn(old, new) == IF new = UNDEFINED THEN old ELSE new

\* edit: the row after .set({name, icon, parentId, query}).
editSet(row, name, icon, parentId, query) ==
    [row EXCEPT !.name = SetColumn(row.name, name),
                !.icon = SetColumn(row.icon, icon),
                !.parentId = SetColumn(row.parentId, parentId),
                !.query = SetColumn(row.query, query)]

\* The name, icon and parentId of the call's input, which edit reads when it
\* builds its update.
WithInput(c, name, icon, parentId) ==
    [c EXCEPT !.name = name, !.icon = icon, !.parentId = parentId]

EditUpdate(p) ==
    \E e \in Entering(p, "editUpdate") :
    \E name \in NameInputs, icon \in IconInputs, parentId \in ParentInputs :
    LET c == WithInput(e, name, icon, parentId)
        matched == OwnedList(c.listId, c.user) IN
    /\      IF name = UNDEFINED /\ icon = UNDEFINED /\ parentId = UNDEFINED /\ c.query = UNDEFINED
           THEN \* .set() of no column: there is no statement to run, the call throws
                /\ lists' = lists
                /\ Becomes(p, Throw(c, "INTERNAL_SERVER_ERROR", "No values to set"))
           ELSE \* the rows matching the predicate are set and returned
                /\ lists' = [l \in DOMAIN lists |->
                               IF l \in matched
                                 THEN editSet(lists[l], name, icon, parentId, c.query)
                                 ELSE lists[l]]
                /\ Becomes(p, IF matched = {} THEN Throw(Wrote(c, 0), "NOT_FOUND", "")
                                         ELSE Proceed(Wrote(c, 0), matched))
    /\ Counted(p)
    /\ UNCHANGED <<members, nextId>>

\* Mutant of deleteWhere: the where clause names the owner only.
deleteWhereOwnerOnly(listId, user) == {l \in DOMAIN lists : lists[l].userId = user}

\* delete: the rows of bookmarkLists its where clause selects.
deleteWhere(listId, user) == OwnedList(listId, user)

\* Mutant of deleteResult: the number of deleted rows is not looked at.
deleteResultAlwaysOk(changes) == OK

\* delete: the outcome for res.changes deleted rows.
deleteResult(changes) == IF changes = 0 THEN "NOT_FOUND" ELSE OK

\* The store removes the membership rows of a deleted list with it.
CascadeMembers(deleted) ==
    [pr \in Pairs |-> IF pr[1] \in deleted THEN 0 ELSE members[pr]]

DeleteList(p) ==
    \E c \in Entering(p, "deleteList") :
    LET matched == deleteWhere(c.listId, c.user)
        cascaded == Cardinality({pr \in Rows : pr[1] \in matched}) IN
    /\ lists' = [l \in DOMAIN lists \ matched |-> lists[l]]
    /\ members' = CascadeMembers(matched)
    /\ Becomes(p, IF deleteResult(Cardinality(matched)) = OK
                    THEN Proceed(Wrote(c, cascaded), {})
                    ELSE Throw(Wrote(c, cascaded), deleteResult(Cardinality(matched)), ""))
    /\ Counted(p)
    /\ UNCHANGED nextId

GetRead(p) ==
    \E c \in Entering(p, "getRead") :
    LET res == OwnedList(c.listId, c.user) IN
    /\ Becomes(p, IF res = {} THEN Throw(c, "NOT_FOUND", "") ELSE Proceed(c, res))
    /\ Counted(p)
    /\ UNCHANGED <<lists, members, nextId>>

\* Mutant of listWhere: findMany without its where clause.
listWhereAll(user) == DOMAIN lists

\* list: the rows of bookmarkLists its where clause selects.
listWhere(user) == {l \in DOMAIN lists : lists[l].userId = user}

ListFindMany(p) ==
    \E c \in Entering(p, "listFindMany") :
    /\ Becomes(p, Proceed(c, listWhere(c.user)))
    /\ Counted(p)
    /\ UNCHANGED <<lists, members, nextId>>

----------------------------------------------------------------------------
(* Membership procedures *)

\* Mutant of addToListCheck: the type of the list is not looked at.
addToListCheckNoType(found) ==
    IF found = {} THEN "INTERNAL_SERVER_ERROR" ELSE "pass"

\* Mutant of addToListCheck: the type test is inverted.
addToListCheckInverted(found) ==
    IF found = {} THEN "INTERNAL_SERVER_ERROR"
    ELSE IF \E l \in found : lists[l].type # "smart" THEN "BAD_REQUEST"
    ELSE "pass"

\* addToList after its re-read: "pass", or the error thrown.
addToListCheck(found) ==
    IF found = {} THEN "INTERNAL_SERVER_ERROR"     \* invariant(list) fails
    ELSE IF \E l \in found : lists[l].type = "smart" THEN "BAD_REQUEST"
    ELSE "pass"

AddReread(p) ==
    \E c \in Entering(p, "addReread") :
    LET r == addToListCheck(OwnedList(c.listId, c.user)) IN
    /\ Becomes(p, IF r = "pass" THEN Proceed(c, {})
                   ELSE IF r = "BAD_REQUEST"
                     THEN Throw(c, r, "Smart lists cannot be added to")
                     ELSE Throw(c, r, "Invariant failed"))
    /\ Counted(p)
    /\ UNCHANGED <<lists, members, nextId>>

\* The store's answer to an insert into bookmarksInLists: the row references
\* an existing list and an existing bookmark, and the pair is the table's key.
InsertResult(listId, bookmarkId) ==
    IF listId \notin DOMAIN lists \/ bookmarkId \notin Bookmarks
      THEN "SQLITE_CONSTRAINT_FOREIGNKEY"
    ELSE IF RowCount(listId, bookmarkId) > 0 THEN "SQLITE_CONSTRAINT_PRIMARYKEY"
    ELSE "ok"

\* Mutant of addToListCatch: every SqliteError becomes an internal error.
addToListCatchAllInternal(e) == "INTERNAL_SERVER_ERROR"

\* Mutant of addToListCatch: every SqliteError is reported as a bad request.
addToListCatchAllBadRequest(e) == "BAD_REQUEST"

\* Mutant of addToListCatch: the catch block swallows the error.
addToListCatchSwallow(e) == OK

\* addToList's catch block: the code of the TRPCError thrown for SqliteError e.
addToListCatch(e) ==
    IF e = "SQLITE_CONSTRAINT_PRIMARYKEY" THEN "BAD_REQUEST" ELSE "INTERNAL_SERVER_ERROR"

AddInsert(p) ==
    \E c \in Entering(p, "addInsert") :
    LET pr == <<c.listId, c.bookmarkId>>
        e == InsertResult(c.listId, c.bookmarkId) IN
    /\ members' = IF e = "ok" THEN [members EXCEPT ![pr] = @ + 1] ELSE members
    /\ Becomes(p, IF e = "ok" THEN Proceed(Wrote(c, 1), {})
                  ELSE IF addToListCatch(e) = "BAD_REQUEST"
                    THEN Throw(Wrote(c, 0), "BAD_REQUEST", "already in the list")
                    ELSE Throw(Wrote(c, 0), addToListCatch(e), "Something went wrong"))
    /\ Counted(p)
    /\ UNCHANGED <<lists, nextId>>

\* Mutant of removeNoRowCode: a missing row is reported as not found.
removeNoRowCodeNotFound == "NOT_FOUND"

\* removeFromList: the code thrown when the delete changed no row.
removeNoRowCode == "BAD_REQUEST"

RemoveDelete(p) ==
    \E c \in Entering(p, "removeDelete") :
    LET pr == <<c.listId, c.bookmarkId>>
        changes == RowCount(c.listId, c.bookmarkId) IN
    /\ members' = [q \in Pairs |-> IF q = pr THEN 0 ELSE members[q]]
    /\ Becomes(p, IF changes = 0
                    THEN Throw(Wrote(c, 0), removeNoRowCode, "already not in list")
                    ELSE Proceed(Wrote(c, changes), {}))
    /\ Counted(p)
    /\ UNCHANGED <<lists, nextId>>

\* Mutant of bookmarkRows: findMany without its where clause.
bookmarkRowsAll(bookmarkId) == Rows

\* getListsOfBookmark: the rows of bookmarksInLists its where clause selects.
bookmarkRows(bookmarkId) == {pr \in Rows : pr[2] = bookmarkId}

BookmarksFindMany(p) ==
    \E c \in Entering(p, "bookmarksFindMany") :
    LET found == bookmarkRows(c.bookmarkId)
        joined == {pr[1] : pr \in found} IN
    /\ Becomes(p, IF \A l \in joined : l \in DOMAIN lists /\ lists[l].userId = c.user
                    THEN Proceed(c, joined)
                    ELSE Throw(c, "INTERNAL_SERVER_ERROR", "assert"))
    /\ Counted(p)
    /\ UNCHANGED <<lists, members, nextId>>

----------------------------------------------------------------------------
(* The system *)

Next ==
    \E p \in Procs :
        \/ ListGuard(p)
        \/ BookmarkGuard(p)
        \/ CreateInsert(p)
        \/ EditReread(p)
        \/ EditUpdate(p)
        \/ DeleteList(p)
        \/ GetRead(p)
        \/ ListFindMany(p)
        \/ AddReread(p)
        \/ AddInsert(p)
        \/ RemoveDelete(p)
        \/ BookmarksFindMany(p)

Spec == Init /\ [][Next]_vars

----------------------------------------------------------------------------
(* Observing a step *)

NumRunning == Cardinality({p \in Procs : Running(calls[p])})
\* Number of calls that have ended.
Ended == started - NumRunning

\* A call ended in this step: last' is its response.
Responded == Ended' = Ended + 1
\* A request was taken up in this step.
Started == started' = started + 1
\* The call that was taken up in this step, as its first step left it.
Fresh ==
    IF Responded THEN last'
    ELSE calls'[CHOOSE p \in Procs : ~Running(calls[p]) /\ Running(calls'[p])]
\* The running call of process p took a step.
Stepped(p) == Running(calls[p]) /\ calls'[p] # calls[p]

Failed(c, code, stage) == c.code = code /\ c.at = stage

OwnedBy(listId, user) == listId \in DOMAIN lists /\ lists[listId].userId = user
HasType(listId, type) == listId \in DOMAIN lists /\ lists[listId].type = type

----------------------------------------------------------------------------
(* Claims *)

\* C1: each guard-gated operation (edit, delete, get, addToList,
\* removeFromList) ends Unauthenticated when the caller identity is absent,
\* whether or not the list exists; otherwise NotFound when no list has the id;
\* otherwise Forbidden when the list's owner is not the caller; only otherwise
\* does it go on past the list guard.
C1_GuardOrder ==
    [][ (Started /\ Fresh.op \in GuardedOps) =>
          LET n == Fresh IN
          IF n.user = NoUser THEN Failed(n, Unauthenticated, "listGuard")
          ELSE IF n.listId \notin DOMAIN lists THEN Failed(n, NotFound, "listGuard")
          ELSE IF lists[n.listId].userId # n.user THEN Failed(n, Forbidden, "listGuard")
          ELSE Running(n) /\ n.pc = 2 ]_vars

\* C1 witness: an unauthenticated call on a list that exists was turned away
\* as Unauthenticated.
C1_Witness ==
    /\ last.op \in GuardedOps
    /\ last.user = NoUser
    /\ last.listId \in DOMAIN lists
    /\ Failed(last, Unauthenticated, "listGuard")

\* C2: when the list guard or the bookmark guard fails for edit, delete,
\* addToList or removeFromList, the call has issued no write before it, and the
\* list rows and membership rows are what they were before the step.
C2_GuardFailureWritesNothing ==
    [][ ( /\ Responded
          /\ last'.op \in {"edit", "delete", "addToList", "removeFromList"}
          /\ last'.at \in {"listGuard", "bookmarkGuard"}
          /\ last'.code # OK )
        => (lists' = lists /\ members' = members /\ last'.writes = 0) ]_vars

\* C2 witness: the bookmark guard turned away an addToList on a list the
\* caller owns, while membership rows exist.
C2_Witness ==
    /\ last.op = "addToList"
    /\ Failed(last, Forbidden, "bookmarkGuard")
    /\ OwnedBy(last.listId, last.user)
    /\ Rows # {}

\* C3: an edit by the owner of a manual list that provides a query (any
\* provided value, the empty string included) fails with InvalidArgument and
\* leaves every stored list unchanged.
C3_ManualListRejectsQuery ==
    [][ \A p \in Procs :
          ( /\ Stepped(p)
            /\ calls[p].op = "edit"
            /\ calls[p].query # UNDEFINED
            /\ OwnedBy(calls[p].listId, calls[p].user)
            /\ HasType(calls[p].listId, "manual") )
          => (Responded /\ last'.code = InvalidArgument /\ lists' = lists) ]_vars

\* C4: addToList and removeFromList on a smart list by its owner, with a
\* bookmark the caller owns, fail with InvalidArgument and leave the
\* membership rows unchanged.
C4_SmartListRejectsMembership ==
    [][ \A p \in Procs :
          ( /\ Stepped(p)
            /\ Stage(calls[p]) \in {"addReread", "addInsert", "removeDelete"}
            /\ OwnedBy(calls[p].listId, calls[p].user)
            /\ HasType(calls[p].listId, "smart") )
          => (Responded /\ last'.code = InvalidArgument /\ members' = members) ]_vars

\* C4 witness: a removeFromList on a smart list that still exists was turned
\* away in its body with InvalidArgument.
C4_Witness ==
    /\ last.op = "removeFromList"
    /\ Failed(last, InvalidArgument, "removeDelete")
    /\ OwnedBy(last.listId, last.user)
    /\ HasType(last.listId, "smart")

\* C5: an addToList whose insert finds the pair already in the list fails
\* with InvalidArgument ("already in the list"), not Internal, and the pair
\* keeps exactly one membership row.
C5_DuplicateAddRejected ==
    [][ \A p \in Procs :
          ( /\ Stepped(p)
            /\ Stage(calls[p]) = "addInsert"
            /\ RowCount(calls[p].listId, calls[p].bookmarkId) > 0 )
          => ( /\ Responded
               /\ last'.code = InvalidArgument
               /\ last'.msg = "already in the list"
               /\ members' = members
               /\ RowCount(calls[p].listId, calls[p].bookmarkId) = 1 ) ]_vars

\* C5 witness: a second addToList of a pair was turned away and the pair has
\* one row.
C5_Witness ==
    /\ last.op = "addToList"
    /\ last.at = "addInsert"
    /\ last.msg = "already in the list"
    /\ RowCount(last.listId, last.bookmarkId) = 1

\* C6: a removeFromList, by the owner of list and bookmark, of a pair that has
\* no membership row fails with InvalidArgument ("already not in list"), never
\* NotFound, and leaves the membership rows unchanged.
C6_RedundantRemoveRejected ==
    [][ \A p \in Procs :
          ( /\ Stepped(p)
            /\ Stage(calls[p]) = "removeDelete"
            /\ RowCount(calls[p].listId, calls[p].bookmarkId) = 0 )
          => ( /\ Responded
               /\ last'.code = InvalidArgument
               /\ last'.msg = "already not in list"
               /\ members' = members ) ]_vars

\* C6 witness: a removeFromList on a manual list was turned away because the
\* pair was not in the list.
C6_Witness ==
    /\ last.op = "removeFromList"
    /\ Failed(last, InvalidArgument, "removeDelete")
    /\ HasType(last.listId, "manual")
    /\ RowCount(last.listId, last.bookmarkId) = 0

C8_I1 == \A l \in DOMAIN lists : lists[l].query # NULL => lists[l].type = "smart"

\* C9 (I4): in every reachable state, under every interleaving of the calls,
\* every membership row references an existing list whose type is manual.
C9_I4 == \A pr \in Rows : HasType(pr[1], "manual")

\* C9 witness: membership rows exist while a smart list exists.
C9_Witness ==
    /\ Rows # {}
    /\ \E l \in DOMAIN lists : lists[l].type = "smart"

\* C10 (I2): a list's ownerId is the identity of the caller whose create
\* produced it, and no step changes the ownerId of a stored list.
C10_I2 ==
    [][ /\ \A l \in DOMAIN lists \cap DOMAIN lists' : lists'[l].userId = lists[l].userId
        /\ \A l \in DOMAIN lists' \ DOMAIN lists :
             /\ Responded
             /\ last'.op = "create"
             /\ last'.ret = {l}
             /\ lists'[l].userId = last'.user ]_vars

\* C10 witness: an edit by its owner has changed a list, which still carries
\* its owner.
C10_Witness ==
    /\ last.op = "edit"
    /\ last.code = OK
    /\ OwnedBy(last.listId, last.user)
    /\ lists[last.listId].name = "n1"

\* C11: in every reachable state each membership row whose list exists joins a
\* list and a bookmark of the same owner, and no getListsOfBookmark call ends
\* on its ownership assertion.
C11_NoCrossOwnership ==
    /\ \A pr \in Rows :
         pr[1] \in DOMAIN lists =>
           pr[2] \in Bookmarks /\ lists[pr[1]].userId = BookmarkOwner[pr[2]]
    /\ ~(last.op = "getListsOfBookmark" /\ last.code # OK /\ last.at = "bookmarksFindMany")

\* C11 witness: an addToList has stored a row while a list of another owner
\* exists.
C11_Witness ==
    /\ last.op = "addToList"
    /\ last.code = OK
    /\ RowCount(last.listId, last.bookmarkId) = 1
    /\ \E l \in DOMAIN lists : lists[l].userId # last.user

\* C12: an addToList insert fails with InvalidArgument only when the row it
\* inserts is already stored; an insert the store refuses for another reason
\* (its list is gone) fails with Internal; a failed insert adds no row.
C12_InsertFailures ==
    [][ \A p \in Procs :
          (Stepped(p) /\ Stage(calls[p]) = "addInsert") =>
            LET c == calls[p] IN
            /\ Responded
            /\ last'.code = InvalidArgument => RowCount(c.listId, c.bookmarkId) > 0
            /\ c.listId \notin DOMAIN lists => Failed(last', Internal, "addInsert")
            /\ last'.code # OK => members' = members
      ]_vars

\* C12 witness: an insert into a list deleted since the re-read has failed
\* with Internal.
C12_Witness ==
    /\ last.op = "addToList"
    /\ Failed(last, Internal, "addInsert")
    /\ last.listId \notin DOMAIN lists
    /\ Rows = {}

\* C13: list returns every stored list whose owner is the caller, and no list
\* of another owner.
C13_ListAll ==
    [][ (Responded /\ last'.op = "list") =>
          /\ last'.code = OK
          /\ \A l \in DOMAIN lists : OwnedBy(l, last'.user) => l \in last'.ret
          /\ \A l \in last'.ret : OwnedBy(l, last'.user)
      ]_vars

\* C13 witness: list has returned the caller's list while another owner's
\* list is stored.
C13_Witness ==
    /\ last.op = "list"
    /\ last.ret # {}
    /\ \E l \in DOMAIN lists : lists[l].userId # last.user

\* C14: getListsOfBookmark by the bookmark's owner returns the lists that hold
\* a row for the bookmark; a successful addToList adds the row of its pair and
\* a successful removeFromList takes the row of its pair away, either leaving
\* every other pair as it was.
C14_Memberships ==
    [][ /\ (Responded /\ last'.op = "getListsOfBookmark"
                     /\ ensureBookmarkOwnership(last'.user, last'.bookmarkId) = "next") =>
             /\ last'.code = OK
             /\ last'.ret = {l \in ListIds : RowCount(l, last'.bookmarkId) > 0}
        /\ (Responded /\ last'.op \in MembershipOps /\ last'.code = OK) =>
             LET pr == <<last'.listId, last'.bookmarkId>> IN
             /\ members[pr] = IF last'.op = "addToList" THEN 0 ELSE 1
             /\ members'[pr] = 1 - members[pr]
             /\ \A q \in Pairs \ {pr} : members'[q] = members[q]
      ]_vars

\* C14 witness: getListsOfBookmark has returned a list the bookmark was added
\* to.
C14_Witness ==
    /\ last.op = "getListsOfBookmark"
    /\ last.code = OK
    /\ last.ret # {}
    /\ \A l \in last.ret : RowCount(l, last.bookmarkId) = 1

\* C15: a step of an edit that provides its query, taken after the list was
\* deleted behind the edit's guard, ends the edit with NotFound and writes no
\* list.
C15_EditAfterDelete ==
    [][ \A p \in Procs :
          (/\ Stepped(p)
           /\ calls[p].op = "edit"
           /\ calls[p].query # UNDEFINED
           /\ calls[p].listId \notin DOMAIN lists) =>
            /\ Responded
            /\ last'.code = NotFound
            /\ lists' = lists
      ]_vars

\* C16: a delete that passed its guard removes the list and succeeds when the
\* list is still stored, and fails with NotFound, removing nothing, when a
\* concurrent delete has removed it; a delete that succeeds has removed the
\* list in its own step, and no list is created under the id a call in flight
\* names, so that at most one delete of a list succeeds.
C16_OneDeleteSucceeds ==
    [][ /\ \A p \in Procs :
             (Stepped(p) /\ Stage(calls[p]) = "deleteList") =>
               /\ Responded
               /\ IF calls[p].listId \in DOMAIN lists
                    THEN last'.code = OK /\ calls[p].listId \notin DOMAIN lists'
                    ELSE Failed(last', NotFound, "deleteList") /\ lists' = lists
        /\ (Responded /\ last'.op = "delete" /\ last'.code = OK) =>
             last'.listId \in DOMAIN lists \ DOMAIN lists'
        /\ \A l \in DOMAIN lists' \ DOMAIN lists :
             \A p \in Procs : Running(calls[p]) => calls[p].listId # l
      ]_vars

\* C16 witness: of two concurrent deletes of a list the second has failed with
\* NotFound after its guard had passed.
C16_Witness ==
    /\ last.op = "delete"
    /\ Failed(last, NotFound, "deleteList")
    /\ last.listId \notin DOMAIN lists

\* C17 (I3): no pair is stored twice in any reachable state, and of the
\* addToList calls that reach their insert for the same pair of a stored list
\* the one that finds no row succeeds and stores one, every other fails with
\* InvalidArgument.
C17_I3 ==
    /\ [](\A pr \in Pairs : members[pr] <= 1)
    /\ [][ \A p \in Procs :
              (/\ Stepped(p)
               /\ Stage(calls[p]) = "addInsert"
               /\ calls[p].listId \in DOMAIN lists) =>
                 LET pr == <<calls[p].listId, calls[p].bookmarkId>> IN
                 /\ Responded
                 /\ IF members[pr] = 0
                      THEN last'.code = OK /\ members'[pr] = 1
                      ELSE Failed(last', InvalidArgument, "addInsert") /\ members' = members
          ]_vars

\* C17 witness: an addToList stands before its insert while a concurrent
\* addToList of the same pair has stored the row.
C17_Witness ==
    \E p \in Procs :
      /\ Stage(calls[p]) = "addInsert"
      /\ last.op = "addToList"
      /\ last.code = OK
      /\ last.listId = calls[p].listId
      /\ last.bookmarkId = calls[p].bookmarkId
      /\ RowCount(last.listId, last.bookmarkId) = 1

\* C18: an addToList or removeFromList whose list guard fails ends in the list
\* guard with the list guard's error, whatever its bookmark is; such a call
\* ends in the bookmark guard only in a later step of its own, after its list
\* guard has let it through.
C18_ListGuardFirst ==
    [][ /\ (/\ Started
             /\ Fresh.op \in MembershipOps
             /\ ensureListOwnership(Fresh.user, Fresh.listId) # "next") =>
               /\ Responded
               /\ Failed(last', ensureListOwnership(last'.user, last'.listId), "listGuard")
        /\ (Responded /\ last'.op \in MembershipOps /\ last'.at = "bookmarkGuard") =>
             /\ ~Started
             /\ \E p \in Procs : Stepped(p) /\ calls[p].pc = 2
      ]_vars

\* C18 witness: a membership call naming another user's list and an unknown
\* bookmark has failed with the list guard's Forbidden.
C18_Witness ==
    /\ last.op \in MembershipOps
    /\ Failed(last, Forbidden, "listGuard")
    /\ last.listId \in DOMAIN lists
    /\ ensureBookmarkOwnership(last.user, last.bookmarkId) = "NOT_FOUND"

\* C19: a successful edit of list L stores, for each of name, icon, parentId
\* and query, the provided value, or the value stored before when none was
\* provided; it keeps L's id, type and owner, every other list and every
\* membership row, and returns L.
C19_PartialUpdate ==
    [][ (Responded /\ last'.op = "edit" /\ last'.code = OK) =>
          LET L == last'.listId
              in == last' IN
          /\ L \in DOMAIN lists
          /\ DOMAIN lists' = DOMAIN lists
          /\ lists'[L].name = IF in.name = UNDEFINED THEN lists[L].name ELSE in.name
          /\ lists'[L].icon = IF in.icon = UNDEFINED THEN lists[L].icon ELSE in.icon
          /\ lists'[L].parentId =
               IF in.parentId = UNDEFINED THEN lists[L].parentId ELSE in.parentId
          /\ lists'[L].query = IF in.query = UNDEFINED THEN lists[L].query ELSE in.query
          /\ lists'[L].type = lists[L].type
          /\ lists'[L].userId = lists[L].userId
          /\ \A l \in DOMAIN lists \ {L} : lists'[l] = lists[l]
          /\ members' = members
          /\ last'.ret = {L}
      ]_vars

\* C19 witness: an edit that provided an icon and no name has succeeded on a
\* list that holds a bookmark.
C19_Witness ==
    /\ last.op = "edit"
    /\ last.code = OK
    /\ last.name = UNDEFINED
    /\ last.icon = "i1"
    /\ last.listId \in DOMAIN lists
    /\ lists[last.listId].icon = "i1"
    /\ lists[last.listId].name # UNDEFINED

====
